---- MODULE Spec2Model ----
(***************************************************************************)
(* Model of scripts/income.py: a diagnostic HTTP listener.  RequestHandler *)
(* logs every GET and POST to standard output and answers with a fixed     *)
(* plain-text acknowledgement; run() serves connections with HTTPServer,   *)
(* whose process_request runs the handler in the listener's own thread.    *)
(*                                                                         *)
(* RequestHandler inherits from BaseHTTPRequestHandler the reading of the  *)
(* request line and the headers, the dispatch to do_GET / do_POST, the     *)
(* error replies and send_response; run() inherits the accept loop and its *)
(* exception handling from HTTPServer.  They are modelled as far as they   *)
(* decide what the script prints, reads and writes.                        *)
(*                                                                         *)
(* Text is modelled as sequences of character codes, so that int(),        *)
(* str.lower() and bytes.decode('utf-8') are computed, not assumed.        *)
(***************************************************************************)
EXTENDS Integers, Sequences, FiniteSets

\* ------------------------------------------------------------------ bounds
NConn == 2        \* connections clients open during a run
MaxHeaders == 2   \* header lines of a request
MaxBody == 2      \* bytes of a request body

\* ------------------------------------------------------------------ values
\* A printed line: kind "marker" with the method in name, "Path" with
\* self.path in value, "Headers", "header" with name and value, "Body" with
\* the decoded text in value.
Line(kind, name, value) == [kind |-> kind, name |-> name, value |-> value]

\* What a client sends: the words of the request line, the header lines and
\* the body.
NoRequest == [line |-> <<>>, headers |-> <<>>, body |-> <<>>]

\* What has been written to a client: the status of the status line, the
\* headers as (name, value) pairs, the body.
NoResponse == [status |-> 0, hdrs |-> <<>>, data |-> ""]

\* A handler and its connection:
\*   pc              "idle" before the connection is accepted; "readline" and
\*                   "parse_headers" in handle_one_request; "send_error" and
\*                   "send_error_body" in send_error; a line of do_GET or
\*                   do_POST; "handle_error", "shutdown_request"; "closed"
\*                   once the connection is closed
\*   request         what the client sends on this connection
\*   head            how much of request line and headers the client has sent:
\*                   "none", "partial" (all but the blank line), "whole"
\*   sent            body bytes the client has sent
\*   client          "connected"; "closed" (the client has closed its end);
\*                   "broken" (the handler has written to a closed client);
\*                   "reset" (the client has reset the connection)
\*   method          the handler method called: "", "do_GET" or "do_POST"
\*   command, path, request_version     set by parse_request
\*   code            the status passed to send_error, 0 if none
\*   content_length, post_data          do_POST's locals
\*   nprinted        header lines printed by the for loop
\*   stdout          the lines printed for this request
\*   stderr          what is written to standard error for this request
\*   wfile           what has been written to the client
\*   exc, tb         the exception raised, "" if none, and the line of the
\*                   handler it was raised at
Idle ==
    [pc |-> "idle", request |-> NoRequest, head |-> "none", sent |-> 0,
     client |-> "connected", method |-> "", command |-> <<>>, path |-> <<>>,
     request_version |-> <<>>, code |-> 0, content_length |-> 0,
     post_data |-> <<>>, nprinted |-> 0, stdout |-> <<>>, stderr |-> <<>>,
     wfile |-> NoResponse, exc |-> "", tb |-> ""]

\* -------------------------------------------------------------------- text
GET == <<71, 69, 84>>
POST == <<80, 79, 83, 84>>
PUT == <<80, 85, 84>>
HEAD == <<72, 69, 65, 68>>
Http09 == <<72, 84, 84, 80, 47, 48, 46, 57>>    \* "HTTP/0.9"
Http11 == <<72, 84, 84, 80, 47, 49, 46, 49>>    \* "HTTP/1.1"
Http20 == <<72, 84, 84, 80, 47, 50, 46, 48>>    \* "HTTP/2.0"
HttpX == <<72, 84, 84, 80, 47, 120>>            \* "HTTP/x"
\* "Content-Length" and "content-length"
ContentLength ==
    <<67, 111, 110, 116, 101, 110, 116, 45, 76, 101, 110, 103, 116, 104>>
ContentLengthLower ==
    <<99, 111, 110, 116, 101, 110, 116, 45, 108, 101, 110, 103, 116, 104>>
XTest == <<88, 45, 84, 101, 115, 116>>          \* "X-Test"

\* ------------------------------------------------------------------ inputs
\* "/a" and "//b"
Paths == { <<47, 97>>, <<47, 47, 98>> }

\* Header lines: Content-Length: 0, content-length: <U+00A0>2,
\* Content-Length: a, Content-Length: -2, X-Test: 1.
HeaderLines ==
    { [name |-> ContentLength, value |-> <<48>>],
      [name |-> ContentLengthLower, value |-> <<160, 50>>],
      [name |-> ContentLength, value |-> <<97>>],
      [name |-> ContentLength, value |-> <<45, 50>>],
      [name |-> XTest, value |-> <<49>>] }

\* Bodies: the first bytes of the stream 195 169 195 169 ..., the UTF-8
\* encoding of U+00E9 repeated, and n bytes of 169 195 169 195 ..., which is
\* not valid UTF-8 at any length.
Stream(a, b, k) == [i \in 1..k |-> IF i % 2 = 1 THEN a ELSE b]

Bodies(n) == { Stream(195, 169, k) : k \in 0..n } \cup { Stream(169, 195, n) }

SeqsUpTo(S, n) == UNION { [1..k -> S] : k \in 0..n }

\* The headers of a request: up to n header lines, each line at most once.
HeaderSeqs(n) ==
    { h \in SeqsUpTo(HeaderLines, n) : \A i, j \in 1..Len(h) : h[i] = h[j] => i = j }

Min(a, b) == IF a < b THEN a ELSE b

\* ------------------------------------------------------- int(str), Python 3
\* Characters int() skips around the number: the ASCII white space and the
\* other characters with the Unicode White_Space property.
Spaces ==
    {9, 10, 11, 12, 13, 32}
    \cup {133, 160, 5760, 8232, 8233, 8239, 8287, 12288}
    \cup (8192..8202)

IsSpace(c) == c \in Spaces

\* The code points of the digit zero of every Unicode decimal digit range
\* (category Nd); the digits 1 to 9 of a range follow its zero.
DecimalZeros ==
    { 48, 1632, 1776, 1984, 2406, 2534, 2662, 2790, 2918, 3046, 3174, 3302,
      3430, 3558, 3664, 3792, 3872, 4160, 4240, 6112, 6160, 6470, 6608, 6784,
      6800, 6992, 7088, 7232, 7248, 42528, 43216, 43264, 43472, 43504, 43600,
      44016, 65296, 66720, 68912, 69734, 69872, 69942, 70096, 70384, 70736,
      70864, 71248, 71360, 71472, 71904, 72016, 72784, 73040, 73120, 92768,
      92864, 93008, 120782, 120792, 120802, 120812, 120822, 123200, 123632,
      125264, 130032 }

DecimalDigits == UNION { z..(z + 9) : z \in DecimalZeros }

\* The value of every decimal digit.
DigitValue ==
    [d \in DecimalDigits |-> d - (CHOOSE z \in DecimalZeros : d >= z /\ d <= z + 9)]

IsDigit(c) == c \in DecimalDigits

DigitOf(c) == DigitValue[c]

\* sys.int_info.default_max_str_digits
MaxStrDigits == 4300

RECURSIVE lstrip(_)
lstrip(s) == IF s # <<>> /\ IsSpace(s[1]) THEN lstrip(Tail(s)) ELSE s

RECURSIVE rstrip(_)
rstrip(s) ==
    IF s # <<>> /\ IsSpace(s[Len(s)]) THEN rstrip(SubSeq(s, 1, Len(s) - 1)) ELSE s

\* Decimal digits, single underscores allowed between two digits; no more
\* than MaxStrDigits digits.
DigitsOk(s) ==
    /\ Len(s) > 0
    /\ \A i \in 1..Len(s) :
          \/ IsDigit(s[i])
          \/ /\ s[i] = 95
             /\ i > 1 /\ i < Len(s)
             /\ IsDigit(s[i - 1]) /\ IsDigit(s[i + 1])
    /\ Cardinality({ i \in 1..Len(s) : s[i] # 95 }) <= MaxStrDigits

RECURSIVE DigitsValue(_)
DigitsValue(s) ==
    IF s = <<>> THEN 0
    ELSE LET c == s[Len(s)]
             r == SubSeq(s, 1, Len(s) - 1)
         IN  IF c = 95 THEN DigitsValue(r) ELSE DigitsValue(r) * 10 + DigitOf(c)

\* int(s) for a str s: [ok |-> FALSE] stands for ValueError.
int(s) ==
    LET t == rstrip(lstrip(s))
        signed == t # <<>> /\ t[1] \in {43, 45}
        d == IF signed THEN Tail(t) ELSE t
    IN  IF DigitsOk(d)
        THEN [ok |-> TRUE,
              val |-> IF signed /\ t[1] = 45 THEN 0 - DigitsValue(d) ELSE DigitsValue(d)]
        ELSE [ok |-> FALSE, val |-> 0]

\* ------------------------------------------------- bytes.decode('utf-8')
IsCont(b) == b >= 128 /\ b <= 191

Utf8Len(b) ==
    IF b < 128 THEN 1
    ELSE IF b >= 194 /\ b <= 223 THEN 2
    ELSE IF b >= 224 /\ b <= 239 THEN 3
    ELSE IF b >= 240 /\ b <= 244 THEN 4
    ELSE 0

Utf8WellFormed(s, n) ==
    /\ n > 0
    /\ Len(s) >= n
    /\ \A i \in 2..n : IsCont(s[i])
    /\ (s[1] = 224 => s[2] >= 160)
    /\ (s[1] = 237 => s[2] <= 159)
    /\ (s[1] = 240 => s[2] >= 144)
    /\ (s[1] = 244 => s[2] <= 143)

Utf8CodePoint(s, n) ==
    IF n = 1 THEN s[1]
    ELSE IF n = 2 THEN (s[1] - 192) * 64 + (s[2] - 128)
    ELSE IF n = 3 THEN (s[1] - 224) * 4096 + (s[2] - 128) * 64 + (s[3] - 128)
    ELSE (s[1] - 240) * 262144 + (s[2] - 128) * 4096 + (s[3] - 128) * 64 + (s[4] - 128)

\* decode(b): [ok |-> FALSE] stands for UnicodeDecodeError; text is the
\* sequence of code points.
RECURSIVE decode(_)
decode(b) ==
    IF b = <<>> THEN [ok |-> TRUE, text |-> <<>>]
    ELSE LET n == Utf8Len(b[1])
         IN  IF ~Utf8WellFormed(b, n) THEN [ok |-> FALSE, text |-> <<>>]
             ELSE LET rest == decode(SubSeq(b, n + 1, Len(b)))
                  IN  IF rest.ok
                      THEN [ok |-> TRUE, text |-> <<Utf8CodePoint(b, n)>> \o rest.text]
                      ELSE [ok |-> FALSE, text |-> <<>>]

\* ------------------------------------------------------------ parse_request
\* The request line is given by its words (requestline.split()), each a str
\* decoded as ISO-8859-1: character codes 0..255.

\* str.isdigit() on ISO-8859-1: the ASCII digits and the superscripts 2, 3, 1.
isdigit(c) == (c >= 48 /\ c <= 57) \/ c \in {178, 179, 185}

\* s.split(sep): the parts of s between the occurrences of the character sep.
RECURSIVE split(_, _)
split(s, sep) ==
    IF \E i \in 1..Len(s) : s[i] = sep
    THEN LET i == CHOOSE k \in 1..Len(s) :
                     s[k] = sep /\ \A j \in 1..(k - 1) : s[j] # sep
         IN  << SubSeq(s, 1, i - 1) >> \o split(SubSeq(s, i + 1, Len(s)), sep)
    ELSE << s >>

\* The checks parse_request makes on the version word: it starts with
\* "HTTP/", and what follows is two numbers with a "." between them, each of
\* at most ten characters, all of them digits, that int() accepts.
VersionOk(v) ==
    /\ Len(v) >= 5
    /\ SubSeq(v, 1, 5) = <<72, 84, 84, 80, 47>>
    /\ LET n == split(SubSeq(v, 6, Len(v)), 46)
       IN  /\ Len(n) = 2
           /\ \A k \in 1..2 :
                 /\ n[k] # <<>>
                 /\ \A i \in 1..Len(n[k]) : isdigit(n[k][i])
                 /\ Len(n[k]) <= 10
                 /\ int(n[k]).ok

\* The version parsed: (major, minor).
VersionNumber(v) ==
    LET n == split(SubSeq(v, 6, Len(v)), 46)
    IN  << int(n[1]).val, int(n[2]).val >>

\* path.lstrip('/')
RECURSIVE lstrip_slash(_)
lstrip_slash(s) == IF s # <<>> /\ s[1] = 47 THEN lstrip_slash(Tail(s)) ELSE s

\* A path that starts with '//' is reduced to a single leading '/'.
NormPath(p) ==
    IF Len(p) >= 2 /\ p[1] = 47 /\ p[2] = 47 THEN <<47>> \o lstrip_slash(p) ELSE p

\* parse_request on the words of the request line, up to the reading of the
\* headers: << code, command, path, request_version >>.  code is the status
\* of the error reply, 0 if there is none, -1 for a line without words
\* (parse_request fails without a reply).  The request version stays the
\* default HTTP/0.9 until a version word has passed its checks; the command
\* stays None (here the empty text) until the line has passed all of them.
parse_request(words) ==
    LET n == Len(words)
        v == IF n >= 3 THEN words[n] ELSE Http09
    IN  IF n = 0 THEN << -1, <<>>, <<>>, Http09 >>
        ELSE IF n >= 3 /\ ~VersionOk(v) THEN << 400, <<>>, <<>>, Http09 >>
        ELSE IF n >= 3 /\ VersionNumber(v)[1] >= 2 THEN << 505, <<>>, <<>>, Http09 >>
        ELSE IF n < 2 \/ n > 3 THEN << 400, <<>>, <<>>, v >>
        ELSE IF n = 2 /\ words[1] # GET THEN << 400, <<>>, <<>>, v >>
        ELSE << 0, words[1], NormPath(words[2]), v >>

\* hasattr(self, 'do_' + command): the class defines do_GET and do_POST.
HasMethod(command) == command \in {GET, POST}

\* ------------------------------------------------------------------- state
VARIABLES
    nconn,          \* connections opened by clients so far: 1..nconn
    naccepted,      \* connections accepted so far: 1..naccepted
    listener,       \* "starting" in run() before serve_forever, "serving"
                    \* in serve_forever, "terminated" once it is left
    handler,        \* per connection, the handler serving it (see Idle)
    stdout_owner    \* standard output since start, as the writers whose
                    \* lines follow one another (runs of one writer
                    \* collapsed); 0 is run(), c the handler of connection c

vars == << nconn, naccepted, listener, handler, stdout_owner >>

Conns == 1..NConn

\* GET and POST requests of HTTP/1.1.
HandledRequests ==
    { [line |-> <<GET, p, Http11>>, headers |-> h, body |-> <<>>] :
        p \in Paths, h \in HeaderSeqs(MaxHeaders) }
    \cup
    { [line |-> <<POST, p, Http11>>, headers |-> h, body |-> b] :
        p \in Paths, h \in HeaderSeqs(MaxHeaders), b \in Bodies(MaxBody) }

\* Request lines of other shapes: an empty line, "GET /a" and "POST /a"
\* (HTTP/0.9), "PUT /a HTTP/1.1", "HEAD /a HTTP/1.1", "GET /a b HTTP/1.1",
\* "GET /a HTTP/2.0", "GET /a HTTP/x".
OtherLines ==
    { <<>>,
      <<GET, <<47, 97>>>>,
      <<POST, <<47, 97>>>>,
      <<PUT, <<47, 97>>, Http11>>,
      <<HEAD, <<47, 97>>, Http11>>,
      <<GET, <<47, 97>>, <<98>>, Http11>>,
      <<GET, <<47, 97>>, Http20>>,
      <<GET, <<47, 97>>, HttpX>> }

Requests ==
    HandledRequests
    \cup { [line |-> l, headers |-> <<>>, body |-> <<>>] : l \in OtherLines }

\* run() after HTTPServer(server_address, handler_class): the socket listens.
Init ==
    /\ nconn = 0
    /\ naccepted = 0
    /\ listener = "starting"
    /\ handler = [c \in Conns |-> Idle]
    /\ stdout_owner = <<>>

\* ----------------------------------------------------------------- helpers
\* str.lower() on ISO-8859-1.
lower(c) ==
    IF (c >= 65 /\ c <= 90) \/ (c >= 192 /\ c <= 214) \/ (c >= 216 /\ c <= 222)
    THEN c + 32 ELSE c

Lower(s) == [i \in 1..Len(s) |-> lower(s[i])]

\* self.headers.get(name, default): the value of the first header whose name
\* is `name`, letter case apart; the default when there is none.
HasHeader(h, name) ==
    LET key == Lower(name)
    IN  \E i \in 1..Len(h) : Lower(h[i].name) = key

RECURSIVE FirstHeader(_, _)
FirstHeader(h, name) ==
    IF Lower(h[1].name) = Lower(name) THEN h[1].value ELSE FirstHeader(Tail(h), name)

\* Variant: get("Content-Length") without a default, so that int(None) raises.
ParseContentLengthNoDefault(h) ==
    IF HasHeader(h, ContentLength)
    THEN int(FirstHeader(h, ContentLength))
    ELSE [ok |-> FALSE, val |-> 0]

\* Variant: a value that does not parse falls back to the default.
ParseContentLengthFallback(h) ==
    IF HasHeader(h, ContentLength) /\ int(FirstHeader(h, ContentLength)).ok
    THEN int(FirstHeader(h, ContentLength))
    ELSE [ok |-> TRUE, val |-> 0]

\* int(self.headers.get("Content-Length", 0)): int(0) is 0.
ParseContentLength(h) ==
    IF HasHeader(h, ContentLength)
    THEN int(FirstHeader(h, ContentLength))
    ELSE [ok |-> TRUE, val |-> 0]

\* Variant: read() without a length, which returns at the end of the stream.
ReadReadyAtEOF(n, avail, closed) == closed

\* self.rfile.read(n) returns or raises without waiting any longer: a length
\* below -1 is refused at once; -1 reads to the end of the stream; n >= 0
\* reads n bytes, fewer when the client has closed.  (Lengths are those the
\* checker's integers hold, below 2^31; the allocation of the buffer fails
\* with MemoryError or OverflowError for lengths far above them.)
ReadReady(n, avail, closed) == n < -1 \/ closed \/ (n >= 0 /\ Len(avail) >= n)

\* Variant: one byte less than asked for is read.
ReadResultShort(n, avail) ==
    IF n < -1 THEN [exc |-> "ValueError", data |-> <<>>]
    ELSE [exc |-> "",
          data |-> IF n < 0 THEN avail ELSE SubSeq(avail, 1, Min(n, Len(avail)) - 1)]

\* What the read gives once it is ready: ValueError("read length must be
\* non-negative or -1"), or the bytes read.
ReadResult(n, avail) ==
    IF n < -1 THEN [exc |-> "ValueError", data |-> <<>>]
    ELSE [exc |-> "",
          data |-> IF n < 0 THEN avail ELSE SubSeq(avail, 1, Min(n, Len(avail)))]

Owner(o, c) == IF o # <<>> /\ o[Len(o)] = c THEN o ELSE Append(o, c)

\* Variant: the items of dict(self.headers), one per name, with the value of
\* the last line of that name.
HeaderItemsMerged(h) ==
    LET IsFirst(i) == \A j \in 1..(i - 1) : h[j].name # h[i].name
        LastOf(i) == CHOOSE k \in i..Len(h) :
                        /\ h[k].name = h[i].name
                        /\ \A m \in (k + 1)..Len(h) : h[m].name # h[i].name
        F[i \in 0..Len(h)] ==
            IF i = 0 THEN <<>>
            ELSE IF IsFirst(i)
                 THEN Append(F[i - 1], <<h[i].name, h[LastOf(i)].value>>)
                 ELSE F[i - 1]
    IN  F[Len(h)]

\* self.headers.items(): a (name, value) pair for every header line, in the
\* order received.
HeaderItems(h) == [i \in 1..Len(h) |-> <<h[i].name, h[i].value>>]

\* send_response(code): the status line and the headers Server and Date,
\* whose values, the interpreter's version and the time of the response, are
\* named by the calls that give them.  Nothing is put in the headers buffer
\* for a request of HTTP/0.9.
send_response(version, code) ==
    IF version = Http09 THEN NoResponse
    ELSE [status |-> code,
          hdrs |-> << <<"Server", "version_string()">>,
                      <<"Date", "date_time_string()">> >>,
          data |-> ""]

\* send_header(keyword, value)
send_header(version, w, keyword, value) ==
    IF version = Http09 THEN w ELSE [w EXCEPT !.hdrs = Append(@, <<keyword, value>>)]

\* Variant: the Content-type header is text/html.
set_headers_html(version) ==
    send_header(version, send_response(version, 200), "Content-type", "text/html")

\* _set_headers: send_response(200), send_header, end_headers.
set_headers(version) ==
    send_header(version, send_response(version, 200), "Content-type", "text/plain")

\* The headers of send_error's reply; the page sent as its body is
\* error_message_format filled in.
error_headers(version, code) ==
    send_header(version,
        send_header(version,
            send_header(version, send_response(version, code),
                        "Connection", "close"),
            "Content-Type", "text/html;charset=utf-8"),
        "Content-Length", "len(body)")

\* Entries of standard error: log_request and log_error with a status code,
\* handle_error's traceback with the exception.
Log(kind, code, e) == << kind, code, e >>

\* Variant: server_class=ThreadingHTTPServer.
Threading == FALSE

\* run(server_class=HTTPServer): process_request calls the handler and
\* returns when it is done; a threading server would return at once.
Synchronous == TRUE

\* Variant: only OSError is caught.
IsOSError(e) == e \in {"ConnectionResetError", "BrokenPipeError"}

\* serve_forever handles a request inside try/except Exception.
IsException(e) ==
    e \in {"ValueError", "UnicodeDecodeError", "ConnectionResetError", "BrokenPipeError"}

Active(c) == handler[c].pc \notin {"idle", "closed"}

Avail(c) == SubSeq(handler[c].request.body, 1, handler[c].sent)

\* The handler waits for the request line, for the end of the headers, or
\* for body bytes at line 22.
WaitsForLine(c) == handler[c].pc = "readline" /\ handler[c].head = "none"

WaitsForHeaders(c) == handler[c].pc = "parse_headers" /\ handler[c].head # "whole"

ReadBlocked(c) ==
    /\ handler[c].pc = "L22"
    /\ ~ReadReady(handler[c].content_length, Avail(c), handler[c].client = "closed")

Blocked(c) == WaitsForLine(c) \/ WaitsForHeaders(c) \/ ReadBlocked(c)

AtWrite(c) ==
    handler[c].pc \in {"L17", "L18", "L31", "L32", "send_error", "send_error_body"}

\* ----------------------------------------------------------------- clients
ClientConnect ==
    /\ nconn < NConn
    /\ nconn' = nconn + 1
    /\ UNCHANGED << naccepted, listener, handler, stdout_owner >>

\* The handler reads the connection in handle_one_request and at line 22, and
\* writes to it in _set_headers, wfile.write and send_error: the client's
\* steps are taken where the handler waits for it or writes to it.

\* The client sends the request line and the headers, with or without the
\* blank line that ends them, or that blank line.
ClientRequest(c) ==
    /\ handler[c].client = "connected"
    /\ \/ /\ WaitsForLine(c)
          /\ \E r \in Requests, part \in {"partial", "whole"} :
                handler' = [handler EXCEPT ![c].request = r, ![c].head = part]
       \/ /\ WaitsForHeaders(c)
          /\ handler' = [handler EXCEPT ![c].head = "whole"]
    /\ UNCHANGED << nconn, naccepted, listener, stdout_owner >>

\* The client sends a byte of the body.
ClientSend(c) ==
    /\ handler[c].client = "connected"
    /\ ReadBlocked(c)
    /\ handler[c].sent < Len(handler[c].request.body)
    /\ handler' = [handler EXCEPT ![c].sent = @ + 1]
    /\ UNCHANGED << nconn, naccepted, listener, stdout_owner >>

\* The client closes its end of the connection.
ClientClose(c) ==
    /\ handler[c].client = "connected"
    /\ Blocked(c) \/ AtWrite(c)
    /\ handler' = [handler EXCEPT ![c].client = "closed"]
    /\ UNCHANGED << nconn, naccepted, listener, stdout_owner >>

\* The client resets the connection.
ClientReset(c) ==
    /\ handler[c].client = "connected"
    /\ Blocked(c) \/ AtWrite(c)
    /\ handler' = [handler EXCEPT ![c].client = "reset"]
    /\ UNCHANGED << nconn, naccepted, listener, stdout_owner >>

\* ---------------------------------------------------------------- listener
\* print(f"Starting server on port {port}..."), then httpd.serve_forever().
run_38 ==
    /\ listener = "starting"
    /\ listener' = "serving"
    /\ stdout_owner' = Owner(stdout_owner, 0)
    /\ UNCHANGED << nconn, naccepted, handler >>

\* serve_forever: take the next connection and make its handler, which
\* starts with handle_one_request.
Accept ==
    /\ listener = "serving"
    /\ naccepted < nconn
    /\ Synchronous => \A c \in Conns : ~Active(c)
    /\ naccepted' = naccepted + 1
    /\ handler' = [handler EXCEPT ![naccepted + 1].pc = "readline"]
    /\ UNCHANGED << nconn, listener, stdout_owner >>

Raised(h, e) == [h EXCEPT !.pc = "handle_error", !.exc = e, !.tb = h.pc]

\* self.raw_requestline = self.rfile.readline(65537), then parse_request up
\* to the reading of the headers.  No line: the connection is closed when the
\* client has closed it, the read raises when the client has reset it.
ReadRequestLine(c) ==
    /\ listener = "serving"
    /\ handler[c].pc = "readline"
    /\ LET h == handler[c]
           p == parse_request(h.request.line)
       IN  IF h.head = "none"
           THEN /\ h.client \in {"closed", "reset"}
                /\ handler' = [handler EXCEPT ![c] =
                       IF h.client = "reset" THEN Raised(h, "ConnectionResetError")
                       ELSE [h EXCEPT !.pc = "shutdown_request"]]
           ELSE handler' = [handler EXCEPT ![c] =
                    [h EXCEPT !.pc = IF p[1] = 0 THEN "parse_headers"
                                     ELSE IF p[1] < 0 THEN "shutdown_request"
                                     ELSE "send_error",
                              !.command = p[2],
                              !.path = p[3],
                              !.request_version = p[4],
                              !.code = IF p[1] > 0 THEN p[1] ELSE 0]]
    /\ UNCHANGED << nconn, naccepted, listener, stdout_owner >>

\* http.client.parse_headers reads to the blank line or the end of the
\* stream; then the method do_<command> is called, or 501 is sent when the
\* class has none.
ParseHeaders(c) ==
    /\ listener = "serving"
    /\ handler[c].pc = "parse_headers"
    /\ LET h == handler[c]
       IN  IF h.head = "whole" \/ h.client = "closed"
           THEN handler' = [handler EXCEPT ![c] =
                    IF HasMethod(h.command)
                    THEN [h EXCEPT !.pc = IF h.command = GET THEN "L12" ELSE "L21",
                                   !.method = IF h.command = GET THEN "do_GET"
                                              ELSE "do_POST"]
                    ELSE [h EXCEPT !.pc = "send_error", !.code = 501]]
           ELSE /\ h.client = "reset"
                /\ handler' = [handler EXCEPT ![c] = Raised(h, "ConnectionResetError")]
    /\ UNCHANGED << nconn, naccepted, listener, stdout_owner >>

\* A write to a client that has reset the connection may raise
\* ConnectionResetError; a write to a client that had closed before an
\* earlier write may raise BrokenPipeError.  "" is the write that succeeds.
WriteOutcomes(c) ==
    {""} \cup (IF handler[c].client = "reset" THEN {"ConnectionResetError"}
               ELSE IF handler[c].client = "broken" THEN {"BrokenPipeError"}
               ELSE {})

AfterWrite(client) == IF client = "closed" THEN "broken" ELSE client

\* send_error(code): log_error, send_response (with log_request), the headers
\* of the reply in one write.
SendErrorHeaders(c) ==
    /\ listener = "serving"
    /\ handler[c].pc = "send_error"
    /\ LET h == handler[c]
           logged == [h EXCEPT !.stderr = @ \o << Log("log_error", h.code, ""),
                                                  Log("log_request", h.code, "") >>]
       IN  IF h.request_version = Http09
           THEN handler' = [handler EXCEPT ![c] =
                                [logged EXCEPT !.pc = "send_error_body"]]
           ELSE \E e \in WriteOutcomes(c) :
                   handler' = [handler EXCEPT ![c] =
                       IF e # "" THEN Raised(logged, e)
                       ELSE [logged EXCEPT
                                !.wfile = error_headers(h.request_version, h.code),
                                !.client = AfterWrite(h.client),
                                !.pc = "send_error_body"]]
    /\ UNCHANGED << nconn, naccepted, listener, stdout_owner >>

\* if self.command != 'HEAD' and body: self.wfile.write(body).  The command
\* is the one parse_request has set.
SendErrorBody(c) ==
    /\ listener = "serving"
    /\ handler[c].pc = "send_error_body"
    /\ LET h == handler[c]
       IN  IF h.command = HEAD
           THEN handler' = [handler EXCEPT ![c].pc = "shutdown_request"]
           ELSE \E e \in WriteOutcomes(c) :
                   handler' = [handler EXCEPT ![c] =
                       IF e # "" THEN Raised(h, e)
                       ELSE [h EXCEPT !.wfile.data = "error_message_format",
                                      !.client = AfterWrite(h.client),
                                      !.pc = "shutdown_request"]]
    /\ UNCHANGED << nconn, naccepted, listener, stdout_owner >>

handle_one_request(c) ==
    \/ ReadRequestLine(c)
    \/ ParseHeaders(c)
    \/ SendErrorHeaders(c)
    \/ SendErrorBody(c)

\* print(line) at `from`, then on to `to`.
PrintStep(c, from, to, line) ==
    /\ listener = "serving"
    /\ handler[c].pc = from
    /\ handler' = [handler EXCEPT ![c].pc = to, ![c].stdout = Append(@, line)]
    /\ stdout_owner' = Owner(stdout_owner, c)
    /\ UNCHANGED << nconn, naccepted, listener >>

\* for header, value in self.headers.items(): print(f"  {header}: {value}").
\* One turn of the loop, or its end.
PrintHeaders(c, from, to) ==
    /\ listener = "serving"
    /\ handler[c].pc = from
    /\ LET items == HeaderItems(handler[c].request.headers)
           k == handler[c].nprinted
       IN  IF k < Len(items)
           THEN /\ handler' = [handler EXCEPT
                       ![c].nprinted = k + 1,
                       ![c].stdout = Append(@, Line("header", items[k + 1][1],
                                                    items[k + 1][2]))]
                /\ stdout_owner' = Owner(stdout_owner, c)
           ELSE /\ handler' = [handler EXCEPT ![c].pc = to]
                /\ UNCHANGED stdout_owner
    /\ UNCHANGED << nconn, naccepted, listener >>

\* self._set_headers(): send_response logs the request on standard error;
\* end_headers writes status line and headers to the client in one write,
\* and nothing for a request of HTTP/0.9.
SetHeadersStep(c, from, to) ==
    /\ listener = "serving"
    /\ handler[c].pc = from
    /\ LET h == handler[c]
           logged == [h EXCEPT !.stderr = Append(@, Log("log_request", 200, ""))]
       IN  IF h.request_version = Http09
           THEN handler' = [handler EXCEPT ![c] = [logged EXCEPT !.pc = to]]
           ELSE \E e \in WriteOutcomes(c) :
                   handler' = [handler EXCEPT ![c] =
                       IF e # "" THEN Raised(logged, e)
                       ELSE [logged EXCEPT
                                !.wfile = set_headers(h.request_version),
                                !.client = AfterWrite(h.client),
                                !.pc = to]]
    /\ UNCHANGED << nconn, naccepted, listener, stdout_owner >>

\* self.wfile.write(data), the last statement of the method.
WriteStep(c, from, data) ==
    /\ listener = "serving"
    /\ handler[c].pc = from
    /\ \E e \in WriteOutcomes(c) :
          handler' = [handler EXCEPT ![c] =
              IF e # "" THEN Raised(@, e)
              ELSE [@ EXCEPT !.wfile.data = data,
                             !.client = AfterWrite(@),
                             !.pc = "shutdown_request"]]
    /\ UNCHANGED << nconn, naccepted, listener, stdout_owner >>

\* Variant: _set_headers is called right after the section marker is printed.
do_GET_early_headers(c) ==
    \/ PrintStep(c, "L12", "L17", Line("marker", GET, <<>>))
    \/ SetHeadersStep(c, "L17", "L13")
    \/ PrintStep(c, "L13", "L14", Line("Path", <<>>, handler[c].path))
    \/ PrintStep(c, "L14", "L15", Line("Headers", <<>>, <<>>))
    \/ PrintHeaders(c, "L15", "L18")
    \/ WriteStep(c, "L18", "GET request received")

\* do_GET, line by line.
do_GET(c) ==
    \/ PrintStep(c, "L12", "L13", Line("marker", GET, <<>>))
    \/ PrintStep(c, "L13", "L14", Line("Path", <<>>, handler[c].path))
    \/ PrintStep(c, "L14", "L15", Line("Headers", <<>>, <<>>))
    \/ PrintHeaders(c, "L15", "L17")
    \/ SetHeadersStep(c, "L17", "L18")
    \/ WriteStep(c, "L18", "GET request received")

\* content_length = int(self.headers.get("Content-Length", 0))
do_POST_21(c) ==
    /\ listener = "serving"
    /\ handler[c].pc = "L21"
    /\ \E n \in { ParseContentLength(handler[c].request.headers) } :
          handler' = [handler EXCEPT ![c] =
                         IF n.ok THEN [@ EXCEPT !.pc = "L22", !.content_length = n.val]
                         ELSE Raised(@, "ValueError")]
    /\ UNCHANGED << nconn, naccepted, listener, stdout_owner >>

\* post_data = self.rfile.read(content_length): the bytes asked for, fewer at
\* the end of the stream; ValueError for a length below -1;
\* ConnectionResetError when the client resets the connection while the read
\* waits.
do_POST_22(c) ==
    /\ listener = "serving"
    /\ handler[c].pc = "L22"
    /\ LET h == handler[c]
           r == ReadResult(h.content_length, Avail(c))
       IN  IF ReadReady(h.content_length, Avail(c), h.client = "closed")
           THEN handler' = [handler EXCEPT ![c] =
                    IF r.exc # "" THEN Raised(h, r.exc)
                    ELSE [h EXCEPT !.pc = "L24", !.post_data = r.data]]
           ELSE /\ h.client = "reset"
                /\ handler' = [handler EXCEPT ![c] = Raised(h, "ConnectionResetError")]
    /\ UNCHANGED << nconn, naccepted, listener, stdout_owner >>

\* print(f"Body:\n{post_data.decode('utf-8')}")
do_POST_29(c) ==
    /\ listener = "serving"
    /\ handler[c].pc = "L29"
    /\ LET d == decode(handler[c].post_data)
       IN  IF d.ok
           THEN /\ handler' = [handler EXCEPT
                       ![c].pc = "L31",
                       ![c].stdout = Append(@, Line("Body", <<>>, d.text))]
                /\ stdout_owner' = Owner(stdout_owner, c)
           ELSE /\ handler' = [handler EXCEPT ![c] = Raised(@, "UnicodeDecodeError")]
                /\ UNCHANGED stdout_owner
    /\ UNCHANGED << nconn, naccepted, listener >>

do_POST(c) ==
    \/ do_POST_21(c)
    \/ do_POST_22(c)
    \/ PrintStep(c, "L24", "L25", Line("marker", POST, <<>>))
    \/ PrintStep(c, "L25", "L26", Line("Path", <<>>, handler[c].path))
    \/ PrintStep(c, "L26", "L27", Line("Headers", <<>>, <<>>))
    \/ PrintHeaders(c, "L27", "L29")
    \/ do_POST_29(c)
    \/ SetHeadersStep(c, "L31", "L32")
    \/ WriteStep(c, "L32", "POST request received")

\* An exception of the handler reaches _handle_request_noblock: for an
\* Exception handle_error writes a traceback to standard error and the loop
\* goes on (shutdown_request follows); for anything else the connection is
\* closed by shutdown_request and the exception leaves serve_forever.
HandleError(c) ==
    /\ listener = "serving"
    /\ handler[c].pc = "handle_error"
    /\ IF IsException(handler[c].exc)
       THEN /\ handler' = [handler EXCEPT
                   ![c].pc = "shutdown_request",
                   ![c].stderr = Append(@, Log("traceback", 0, handler[c].exc))]
            /\ UNCHANGED listener
       ELSE /\ handler' = [handler EXCEPT ![c] = [Idle EXCEPT !.pc = "closed"]]
            /\ listener' = "terminated"
    /\ UNCHANGED << nconn, naccepted, stdout_owner >>

\* The connection is closed and the handler with its locals is gone.
ShutdownRequest(c) ==
    /\ listener = "serving"
    /\ handler[c].pc = "shutdown_request"
    /\ handler' = [handler EXCEPT ![c] = [Idle EXCEPT !.pc = "closed"]]
    /\ UNCHANGED << nconn, naccepted, listener, stdout_owner >>

Handle(c) ==
    \/ handle_one_request(c)
    \/ do_GET(c)
    \/ do_POST(c)
    \/ HandleError(c)
    \/ ShutdownRequest(c)

run == run_38 \/ Accept \/ \E c \in Conns : Handle(c)

Next ==
    \/ ClientConnect
    \/ \E c \in Conns : ClientRequest(c) \/ ClientSend(c) \/ ClientClose(c) \/ ClientReset(c)
    \/ run

Spec == Init /\ [][Next]_vars

\* ================================================================== claims
Done(c) == handler[c].pc = "shutdown_request"

\* The client has been there to send its request and to receive the answer.
Connected(c) == handler[c].client = "connected"

\* The values of the headers of that name in what was written to the client.
Sent(w, name) ==
    LET Named(p) == p[1] = name
        s == SelectSeq(w.hdrs, Named)
    IN  [i \in 1..Len(s) |-> s[i][2]]

\* The acknowledgement as the client sees it: status 200, one Content-type
\* header, text/plain, and the body.
IsAck(w, body) ==
    /\ w.status = 200
    /\ Sent(w, "Content-type") = << "text/plain" >>
    /\ w.data = body

\* str(n) for n >= 0.
RECURSIVE str(_)
str(n) == IF n < 10 THEN <<48 + n>> ELSE str(n \div 10) \o <<48 + (n % 10)>>

LastLine(c) == handler[c].stdout[Len(handler[c].stdout)]

\* A request line "GET <path> HTTP/1.x" or "POST <path> HTTP/1.x".
ValidLine(l, m) ==
    /\ Len(l) = 3
    /\ l[1] = m
    /\ VersionOk(l[3])
    /\ VersionNumber(l[3])[1] = 1

\* C1: every GET of HTTP/1.x whose client stays connected is answered with
\* status 200, Content-type text/plain and the body "GET request received",
\* whatever its path and headers.
C1_GetResponse ==
    \A c \in Conns :
        (Done(c) /\ ValidLine(handler[c].request.line, GET) /\ Connected(c))
        => /\ handler[c].method = "do_GET"
           /\ handler[c].exc = ""
           /\ IsAck(handler[c].wfile, "GET request received")

C1_Witness ==
    \E c \in Conns :
        /\ Done(c) /\ Connected(c)
        /\ handler[c].method = "do_GET"
        /\ handler[c].request.line[2] = <<47, 47, 98>>
        /\ Len(handler[c].request.headers) >= 2
        /\ handler[c].wfile.status = 200
        /\ handler[c].wfile.data = "GET request received"

\* A POST of HTTP/1.x whose Content-Length headers all say len(B) for its
\* body B, B being valid UTF-8.
ValidPost(r) ==
    /\ ValidLine(r.line, POST)
    /\ HasHeader(r.headers, ContentLength)
    /\ \A i \in 1..Len(r.headers) :
          Lower(r.headers[i].name) = ContentLengthLower
          => int(r.headers[i].value) = [ok |-> TRUE, val |-> Len(r.body)]
    /\ decode(r.body).ok

\* C2: for a POST with body B and Content-Length len(B) whose client stays
\* connected, exactly the bytes of B are read, the line logged after "Body:"
\* is B decoded as UTF-8, and the response is 200 "POST request received".
C2_PostBody ==
    \A c \in Conns :
        (Done(c) /\ ValidPost(handler[c].request) /\ Connected(c))
        => /\ handler[c].method = "do_POST"
           /\ handler[c].exc = ""
           /\ handler[c].post_data = handler[c].request.body
           /\ handler[c].stdout # <<>>
           /\ LastLine(c) = Line("Body", <<>>, decode(handler[c].request.body).text)
           /\ IsAck(handler[c].wfile, "POST request received")

C2_Witness ==
    \E c \in Conns :
        /\ Done(c) /\ Connected(c)
        /\ ValidPost(handler[c].request)
        /\ handler[c].request.body = <<195, 169>>
        /\ LastLine(c).value = <<233>>
        /\ handler[c].wfile.data = "POST request received"

\* do_POST was called for a request whose Content-Length (the first one) is
\* not a parseable integer.
Malformed(c) ==
    /\ handler[c].method = "do_POST"
    /\ HasHeader(handler[c].request.headers, ContentLength)
    /\ ~int(FirstHeader(handler[c].request.headers, ContentLength)).ok

\* C3 as stated: a POST with a malformed Content-Length is handled as a POST
\* with an empty body: it is logged with an empty Body line and answered.
C3_MalformedAsZero ==
    \A c \in Conns :
        (Done(c) /\ Malformed(c) /\ Connected(c))
        => /\ handler[c].exc = ""
           /\ handler[c].stdout # <<>>
           /\ LastLine(c) = Line("Body", <<>>, <<>>)
           /\ handler[c].wfile.status = 200

\* C3, amended: a POST with a malformed Content-Length fails at line 21 with
\* ValueError, before anything is read, printed or written: it has no log
\* block and no response, the exception is reported on standard error, and
\* the listener goes on serving.
C3_MalformedRaises ==
    \A c \in Conns :
        Malformed(c)
        => /\ handler[c].pc \in {"L21", "handle_error", "shutdown_request"}
           /\ handler[c].pc # "L21"
                => handler[c].exc = "ValueError" /\ handler[c].tb = "L21"
           /\ Done(c) => handler[c].stderr = << Log("traceback", 0, "ValueError") >>
           /\ handler[c].post_data = <<>>
           /\ handler[c].stdout = <<>>
           /\ handler[c].wfile = NoResponse
           /\ listener = "serving"

C3_Witness ==
    \E c \in Conns :
        /\ Done(c)
        /\ Malformed(c)
        /\ handler[c].stderr = << Log("traceback", 0, "ValueError") >>
        /\ handler[c].wfile = NoResponse

\* C4: when the body read cannot be decoded as UTF-8, a diagnostic is logged
\* and the client receives a 400-class response.
C4_DecodeFailure400 ==
    \A c \in Conns :
        (/\ Done(c)
         /\ handler[c].method = "do_POST"
         /\ ~decode(handler[c].post_data).ok
         /\ Connected(c))
        => /\ handler[c].stderr # <<>>
           /\ handler[c].wfile.status >= 400
           /\ handler[c].wfile.status <= 499

\* C5: no failure of a request ends the listener: serve_forever is never
\* left, every exception of a handler is reported and its connection closed,
\* and when no handler runs and a connection waits, it is accepted.
C5_ListenerSurvives ==
    /\ listener \in {"starting", "serving"}
    /\ \A c \in Conns : handler[c].pc = "handle_error" => ENABLED HandleError(c)
    /\ \A c \in Conns : Done(c) /\ handler[c].exc # ""
          => handler[c].stderr[Len(handler[c].stderr)]
                = Log("traceback", 0, handler[c].exc)
    /\ (listener = "serving" /\ naccepted < nconn /\ \A c \in Conns : ~Active(c))
          => ENABLED Accept

\* The second connection is served in full after the first one failed before
\* printing anything.
C5_Witness ==
    /\ naccepted = 2
    /\ stdout_owner = <<0, 2>>
    /\ Done(2)
    /\ handler[2].exc = ""
    /\ handler[2].wfile.status = 200

\* do_POST was called for a request without a Content-Length header, or with
\* Content-Length: 0 as the first one.
NoCL(c) ==
    /\ handler[c].method = "do_POST"
    /\ ~HasHeader(handler[c].request.headers, ContentLength)

ZeroCL(c) ==
    /\ handler[c].method = "do_POST"
    /\ HasHeader(handler[c].request.headers, ContentLength)
    /\ FirstHeader(handler[c].request.headers, ContentLength) = str(0)

WithContentLength0(h) == << [name |-> ContentLength, value |-> str(0)] >> \o h

\* C6: a POST without a Content-Length header and a POST with
\* Content-Length: 0 behave alike: the length parsed is the same, the read
\* does not wait and returns no byte, no step before the response fails, the
\* Body line is empty and the response is 200 "POST request received".
C6_MissingIsZero ==
    \A c \in Conns :
        LET h == handler[c]
        IN  (/\ h.method = "do_POST"
             /\ HasHeader(h.request.headers, ContentLength)
                  => FirstHeader(h.request.headers, ContentLength) = str(0))
            => /\ NoCL(c) => ParseContentLength(h.request.headers)
                    = ParseContentLength(WithContentLength0(h.request.headers))
               /\ h.pc # "L21" => h.content_length = 0
               /\ ~ReadBlocked(c)
               /\ h.post_data = <<>>
               /\ h.tb \notin {"L21", "L22", "L29"}
               /\ h.pc \in {"L31", "L32", "handle_error", "shutdown_request"}
                    => LastLine(c) = Line("Body", <<>>, <<>>)
               /\ (Done(c) /\ Connected(c))
                    => IsAck(h.wfile, "POST request received")

\* A POST without Content-Length whose client has a body to send.
C6_Witness ==
    \E c \in Conns :
        /\ Done(c) /\ Connected(c)
        /\ NoCL(c)
        /\ Len(handler[c].request.body) > 0
        /\ LastLine(c).value = <<>>
        /\ handler[c].wfile.data = "POST request received"

\* Handler steps from a position of do_POST to the response step, line 31.
StepsToResponse(c) ==
    LET h == handler[c]
        lines == CASE h.pc = "L21" -> 7 [] h.pc = "L22" -> 6 [] h.pc = "L24" -> 5
                   [] h.pc = "L25" -> 4 [] h.pc = "L26" -> 3 [] h.pc = "L27" -> 2
                   [] h.pc = "L29" -> 1 [] h.pc = "L31" -> 0 [] OTHER -> 100
    IN  lines + (Len(h.request.headers) - h.nprinted)

BeforeResponse(c) ==
    handler[c].pc \in {"L21", "L22", "L24", "L25", "L26", "L27", "L29"}

\* C7: a POST with Content-Length: 0 whose client sends no body never waits:
\* line 21 parses the length 0 and goes on to line 22; from there to the
\* response step a step of do_POST is always possible, the read at line 22
\* among them, with no byte received; every step brings the handler one step
\* closer to line 31, so it gets there; and the Body line it has logged by
\* then is empty.
C7_ZeroLengthCompletes ==
    /\ [](\A c \in Conns :
            (/\ BeforeResponse(c) \/ handler[c].pc = "L31"
             /\ ZeroCL(c))
            => /\ BeforeResponse(c) => handler[c].sent = 0 /\ listener = "serving"
               /\ handler[c].pc = "L21"
                    => ParseContentLength(handler[c].request.headers)
                         = [ok |-> TRUE, val |-> 0]
               /\ (BeforeResponse(c) /\ handler[c].pc # "L21") => ENABLED do_POST(c)
               /\ ~ReadBlocked(c)
               /\ handler[c].pc = "L31" => LastLine(c) = Line("Body", <<>>, <<>>))
    /\ [][\A c \in Conns :
            (/\ BeforeResponse(c)
             /\ handler'[c] # handler[c]
             /\ ZeroCL(c))
            => StepsToResponse(c)' = StepsToResponse(c) - 1]_vars

C7_Witness ==
    \E c \in Conns :
        /\ ZeroCL(c)
        /\ handler[c].pc = "L31"
        /\ handler[c].sent = 0
        /\ Connected(c)
        /\ Len(handler[c].request.headers) >= 2
        /\ LastLine(c).value = <<>>

\* The header lines of a request's log block, and what they are to be.
IsHeaderLine(l) == l.kind = "header"
HeaderLog(c) == SelectSeq(handler[c].stdout, IsHeaderLine)

ExpectedHeaderLog(r) ==
    [i \in 1..Len(r.headers) |-> Line("header", r.headers[i].name, r.headers[i].value)]

\* The handler method has left its header loop: it is at a later line, or it
\* has ended, normally or with an exception raised at a later line.
PastHeaderLoop(c) ==
    \/ handler[c].pc \in {"L17", "L18", "L29", "L31", "L32"}
    \/ /\ handler[c].pc \in {"handle_error", "shutdown_request"}
       /\ handler[c].method # ""
       /\ handler[c].tb \in {"", "L17", "L18", "L29", "L31", "L32"}

\* C8: for every GET and POST request, at every moment, the header lines
\* logged are the first header lines of the request in the order received,
\* one line per occurrence with the name and the value of that occurrence, so
\* that a name occurring k times has k lines and none is merged or reordered;
\* once the handler has left its header loop every header line of the
\* request is logged; a POST that has raised at line 21 or 22, before its
\* loop, has logged no header line, and a request that did not raise there
\* has left its loop when it is done.
C8_HeaderOrder ==
    \A c \in Conns :
        LET h == handler[c]
            want == ExpectedHeaderLog(h.request)
        IN  /\ HeaderLog(c) = SubSeq(want, 1, h.nprinted)
            /\ PastHeaderLoop(c) => HeaderLog(c) = want
            /\ h.tb \in {"L21", "L22"} => (h.nprinted = 0 /\ HeaderLog(c) = <<>>)
            /\ (Done(c) /\ h.method # "" /\ h.tb \notin {"L21", "L22"})
                 => PastHeaderLoop(c)

\* A POST with two Content-Length lines of different values, both logged, in
\* the order received.
C8_Witness ==
    \E c \in Conns :
        /\ Done(c)
        /\ handler[c].method = "do_POST"
        /\ Len(handler[c].request.headers) = 2
        /\ handler[c].request.headers[1].name = handler[c].request.headers[2].name
        /\ handler[c].request.headers[1].value # handler[c].request.headers[2].value
        /\ HeaderLog(c) = ExpectedHeaderLog(handler[c].request)
        /\ Len(HeaderLog(c)) = 2

\* C9: connections are served one at a time, in the order accepted, and the
\* lines of one request are one block of standard output.
C9_Serial ==
    /\ \A c, d \in Conns : (Active(c) /\ Active(d)) => c = d
    /\ \A c \in Conns : Active(c) => \A d \in 1..(c - 1) : handler[d].pc = "closed"
    /\ \A i, j \in 1..Len(stdout_owner) : stdout_owner[i] = stdout_owner[j] => i = j

\* Two connections were open at once and the second block follows the first.
C9_Witness ==
    /\ stdout_owner = <<0, 1, 2>>
    /\ Done(2)
    /\ Len(handler[2].stdout) > 3

LogComplete(c) ==
    LET h == handler[c]
        n == Len(h.request.headers)
    IN  /\ h.method # ""
        /\ Len(h.stdout) = 3 + n + (IF h.method = "do_POST" THEN 1 ELSE 0)
        /\ h.stdout[1] = Line("marker", h.command, <<>>)
        /\ h.stdout[2] = Line("Path", <<>>, h.path)
        /\ h.stdout[3] = Line("Headers", <<>>, <<>>)
        /\ HeaderLog(c) = ExpectedHeaderLog(h.request)
        /\ h.method = "do_POST" => LastLine(c).kind = "Body"

\* C10: do_GET and do_POST write nothing to the client before the request's
\* whole log block is printed; do_POST prints nothing before the
\* Content-Length is parsed and the body read; a request that fails before
\* the response step has sent the client nothing.
C10_LogThenRespond ==
    \A c \in Conns :
        LET h == handler[c]
        IN  /\ (h.method # "" /\ h.wfile # NoResponse) => LogComplete(c)
            /\ (h.method # "" /\ h.wfile.data # "")
                 => h.wfile.status = 200 \/ h.request_version = Http09
            /\ (h.method = "do_POST" /\ h.stdout # <<>>)
                 => /\ h.pc \notin {"L21", "L22"}
                    /\ h.tb \notin {"L21", "L22"}
                    /\ ParseContentLength(h.request.headers)
                         = [ok |-> TRUE, val |-> h.content_length]
                    /\ h.post_data = ReadResult(h.content_length, Avail(c)).data
            /\ h.tb \in {"L21", "L22", "L29"} => h.wfile = NoResponse

\* A POST that failed at line 29, after its header lines were printed.
C10_Witness ==
    \E c \in Conns :
        /\ Done(c)
        /\ handler[c].exc = "UnicodeDecodeError"
        /\ Len(handler[c].stdout) > 3
        /\ handler[c].wfile = NoResponse
====
